---- MODULE Spec2Model ----
(***************************************************************************)
(* Model of the request-batching and streaming engine of NeuralRipper:     *)
(* backend/app/handlers/queue_handler.py (class QueueHandler).             *)
(*                                                                         *)
(* Every asyncio task of the handler is a record with a program counter;   *)
(* one action is the code a task runs between two suspension points of the *)
(* event loop.  Time is counted in ticks: a worker keeps the number of     *)
(* ticks left until its deadline (end_time - time.time()) or its wake-up.  *)
(***************************************************************************)
EXTENDS Naturals, Sequences, FiniteSets

(* ---- bounds of the model ---------------------------------------------- *)
\* number of client requests (calls of stream_inference) in a run of the
\* batch collector
NumRequests == 4
\* number of client requests in a run of the whole system
NumStreamed == 2
\* number of client requests in a run under fair scheduling
NumLive == 1
\* number of content fragments the upstream emits in a run, over all calls
MaxFragments == 2
\* max_batch_size (queue_handler.py:39 sets 5), scaled down so that full
\* batches and left-over requests occur with NumRequests requests
max_batch_size == 2

\* number of calls of start_workers in a run that calls it more than once
MaxStarts == 2

\* number of lines the upstream sends in a run that models the response line
\* by line
MaxLines == 2

\* number of messages a client sends on its WebSocket connection
MaxMessages == 2

\* largest timeout, in seconds, a caller passes to wait_for_pod_ready
MaxTimeout == 25

(* ---- program constants, in ticks of 50 ms ------------------------------ *)
\* self.batch_timeout = 0.1 (seconds)
batch_timeout == 2
\* asyncio.sleep(0.1) of the idle worker
idle_sleep == 2

\* wait_for_pod_ready(self, pod_id, timeout=300), in seconds
DefaultTimeout == 300
\* the 10 of range(timeout // 10) and of asyncio.sleep(10), in seconds
PollInterval == 10

Requests == 1..NumRequests

VARIABLES
    available_models,  \* settings.AVAILABLE_MODELS, the list list_models() returns
    requests_queues,   \* defaultdict: model -> queue of (prompt, response_channel)
    workers,           \* dict: model -> index of its worker task in wtasks
    wtasks,            \* the _worker tasks, in creation order
    ptasks,            \* the _process_batch tasks, in creation order
    stasks,            \* the _stream_single_request tasks, in creation order
    channel,           \* request -> content of its response_channel queue
    written,           \* request -> every item ever put on its response_channel
    cpc,               \* request -> position of its stream_inference generator
    yielded,           \* request -> the tokens stream_inference has yielded
    reqModel,          \* request -> the model it was submitted for
    received,          \* request -> the lines its upstream call has read (aiter_lines)
    ws_pc,             \* position of the /ws/eval handler of one connection
    ws_in,             \* the messages the handler has received on the connection
    ws_out,            \* the messages the handler has sent on the connection
    pi_pc,             \* position of the PrimeIntellectClient call under way
    pi_entry,          \* the method of PrimeIntellectClient that was called
    pod_id,            \* the local pod_id of chat_complete
    created,           \* the pods the provider has created (POST answered 201)
    deleted,           \* the pods delete_pod was called for
    wait,              \* wait_for_pod_ready: timeout, polls made, last status, outcome
    pi_out             \* what the call has yielded or returned, in order

\* the state of routers/eval_router.py
wsvars == <<ws_pc, ws_in, ws_out>>

\* the state of utils/prime_intellect_client.py
pivars == <<pi_pc, pi_entry, pod_id, created, deleted, wait, pi_out>>

\* the state the tasks of QueueHandler neither read nor write
elsewhere == <<received, wsvars, pivars>>

vars == <<available_models, requests_queues, workers, wtasks, ptasks, stasks, channel, written,
          cpc, yielded, reqModel, elsewhere>>

(* ---- items of a response channel --------------------------------------- *)
\* a content fragment: the k-th one the upstream call for prompt p emitted
Fragment(p, k) == [kind |-> "fragment", prompt |-> p, k |-> k]
\* f"Error: {str(e)}" put by the except clause of the call for prompt p
ErrorFragment(p) == [kind |-> "error", prompt |-> p, k |-> 0]
\* None, the end-of-stream signal
EndOfStream == [kind |-> "eos", prompt |-> 0, k |-> 0]

\* the fragments 1..n the upstream call for prompt p emits, in emission order
Emitted(p, n) == [k \in 1..n |-> Fragment(p, k)]

\* QueueOf of a dict whose entry is set to a new queue on every reference
\* (self.requests_queues[model] = asyncio.Queue())
QueueOf_Fresh(q, m) == << >>

\* self.requests_queues[model] of a defaultdict(asyncio.Queue): a missing key
\* reads as a new empty queue
QueueOf(q, m) == IF m \in DOMAIN q THEN q[m] ELSE <<>>

\* WithQueue of a handler that keeps one queue for all models
\* (self.requests_queue = asyncio.Queue()): every key reads as that queue
WithQueue_Shared(q, m, s) == [x \in DOMAIN q \cup {m} |-> s]

\* the defaultdict after the queue of model m was set to s (the key is created)
WithQueue(q, m, s) == [x \in DOMAIN q \cup {m} |-> IF x = m THEN s ELSE q[x]]

\* asyncio.Queue.put on an unbounded queue: append, never blocks
QueuePut(s, item) == Append(s, item)

\* QueueGet that returns the oldest item and leaves it in the queue
QueueGet_Peek(s) == [item |-> Head(s), rest |-> s]

\* QueueGet of a LifoQueue: the newest item leaves the queue
QueueGet_Newest(s) == [item |-> s[Len(s)], rest |-> SubSeq(s, 1, Len(s) - 1)]

\* asyncio.Queue.get on a non-empty queue: the oldest item leaves the queue
QueueGet(s) == [item |-> Head(s), rest |-> Tail(s)]

\* pod_id = None (line 197); None and the empty string are both false at line 209
NoPod == ""

\* no call of wait_for_pod_ready was made
NoWait == [timeout |-> 0, polls |-> 0, status |-> "none", result |-> "none"]

\* the models that list_models() names
Configured == {available_models[i] : i \in DOMAIN available_models}

\* a QueueHandler just constructed, in a deployment whose AVAILABLE_MODELS is
\* the list models
InitWith(models) ==
    /\ available_models = models
    /\ requests_queues = << >>
    /\ workers = << >>
    /\ wtasks = << >>
    /\ ptasks = << >>
    /\ stasks = << >>
    /\ channel = [r \in Requests |-> << >>]
    /\ written = [r \in Requests |-> << >>]
    /\ cpc = [r \in Requests |-> "new"]
    /\ yielded = [r \in Requests |-> << >>]
    /\ reqModel = [r \in Requests |-> "none"]
    /\ received = [r \in Requests |-> << >>]
    /\ ws_pc = "connecting"
    /\ ws_in = << >>
    /\ ws_out = << >>
    /\ pi_pc = "idle"
    /\ pi_entry = "none"
    /\ pod_id = NoPod
    /\ created = {}
    /\ deleted = {}
    /\ wait = NoWait
    /\ pi_out = << >>

\* the deployment with AVAILABLE_MODELS=qwen
Init == InitWith(<<"qwen">>)

\* the deployment with the default of config.py, AVAILABLE_MODELS=qwen,llama-3-70b
InitDefault == InitWith(<<"qwen", "llama-3-70b">>)

(* ---- QueueHandler.start_workers ----------------------------------------- *)
\* a _worker task as asyncio.create_task leaves it: created, not yet run
NewWorker(m) ==
    [model |-> m, pc |-> "created", batch |-> << >>, remaining |-> 0]

\* for model in list_models(): self.workers[model] = create_task(_worker(model))
start_workers ==
    /\ wtasks = << >>
    /\ wtasks' = [i \in DOMAIN available_models |-> NewWorker(available_models[i])]
    /\ workers' = [m \in Configured |->
                     CHOOSE i \in DOMAIN available_models :
                        /\ available_models[i] = m
                        /\ \A j \in DOMAIN available_models :
                              available_models[j] = m => j <= i]
    /\ UNCHANGED <<elsewhere, available_models, requests_queues, ptasks, stasks, channel, written, cpc,
                   yielded, reqModel>>

\* start_workers called on a handler whose workers were started before: the
\* loop of lines 49-50 creates a task for every entry of the list again and
\* self.workers[model] is overwritten; the tasks created before keep running
start_workers_again ==
    /\ wtasks # << >>
    /\ Len(wtasks) < MaxStarts * Len(available_models)
    /\ wtasks' = wtasks \o [i \in DOMAIN available_models |-> NewWorker(available_models[i])]
    /\ workers' = [m \in Configured |->
                     Len(wtasks) + CHOOSE i \in DOMAIN available_models :
                                      /\ available_models[i] = m
                                      /\ \A j \in DOMAIN available_models :
                                            available_models[j] = m => j <= i]
    /\ UNCHANGED <<elsewhere, available_models, requests_queues, ptasks, stasks, channel, written, cpc,
                   yielded, reqModel>>

(* ---- QueueHandler.stream_inference -------------------------------------- *)
\* the (prompt, response_channel) pair of request r
PendingRequest(r) == [prompt |-> r, response_channel |-> r]

\* lines 80-83: create the response channel and put the pair on the queue of
\* the model; requests are numbered in the order they are submitted
Submit(r, m) ==
    /\ cpc[r] = "new"
    /\ \A o \in Requests : o < r => cpc[o] # "new"
    /\ requests_queues' = WithQueue(requests_queues, m,
                              QueuePut(QueueOf(requests_queues, m), PendingRequest(r)))
    /\ cpc' = [cpc EXCEPT ![r] = "waiting"]
    /\ reqModel' = [reqModel EXCEPT ![r] = m]
    /\ UNCHANGED <<elsewhere, available_models, workers, wtasks, ptasks, stasks, channel, written, yielded>>

\* ConsumerGet with the token yielded before it is tested: None is yielded too,
\* and then ends the generator
ConsumerGet_YieldsMarker(r) ==
    /\ cpc[r] = "waiting"
    /\ channel[r] # << >>
    /\ LET token == QueueGet(channel[r]).item IN
         /\ channel' = [channel EXCEPT ![r] = QueueGet(channel[r]).rest]
         /\ yielded' = [yielded EXCEPT ![r] = Append(@, token)]
         /\ IF token = EndOfStream
              THEN cpc' = [cpc EXCEPT ![r] = "done"]
              ELSE cpc' = cpc
    /\ UNCHANGED <<elsewhere, available_models, requests_queues, workers, wtasks, ptasks, stasks, written, reqModel>>

\* lines 86-90: token = await response_channel.get(); None ends the generator,
\* any other token is yielded
ConsumerGet(r) ==
    /\ cpc[r] = "waiting"
    /\ channel[r] # << >>
    /\ LET token == QueueGet(channel[r]).item IN
         /\ channel' = [channel EXCEPT ![r] = QueueGet(channel[r]).rest]
         /\ IF token = EndOfStream
              THEN cpc' = [cpc EXCEPT ![r] = "done"] /\ yielded' = yielded
              ELSE cpc' = cpc /\ yielded' = [yielded EXCEPT ![r] = Append(@, token)]
    /\ UNCHANGED <<elsewhere, available_models, requests_queues, workers, wtasks, ptasks, stasks, written, reqModel>>

\* OnAbandon with the disconnect wired to the upstream call: the task that
\* holds the channel of r is cancelled
OnAbandon_Cancels(tasks, r) ==
    [t \in DOMAIN tasks |->
        IF tasks[t].response_channel = r /\ tasks[t].pc = "streaming"
          THEN [tasks[t] EXCEPT !.pc = "done", !.result = "cancelled"]
          ELSE tasks[t]]

\* the caller of stream_inference stops reading (its client disconnects): the
\* generator holds no reference to the upstream-call task, so the tasks are
\* left as they are
OnAbandon(tasks, r) == tasks

\* lines 86-90 never resumed: the generator of request r is dropped before it
\* has read None
Abandon(r) ==
    /\ cpc[r] = "waiting"
    /\ cpc' = [cpc EXCEPT ![r] = "abandoned"]
    /\ stasks' = OnAbandon(stasks, r)
    /\ UNCHANGED <<elsewhere, available_models, requests_queues, workers, wtasks, ptasks, channel, written,
                   yielded, reqModel>>

(* ---- QueueHandler._collect_batch and QueueHandler._worker --------------- *)
\* LoopCond with <= for <
LoopCond_OffByOne(rem, batch) == rem > 0 /\ Len(batch) <= max_batch_size

\* line 111: while time.time() < end_time and len(batch) < self.max_batch_size
LoopCond(rem, batch) == rem > 0 /\ Len(batch) < max_batch_size

\* why the loop of _collect_batch was left
ExitCause(rem, batch, timedOut) ==
    IF timedOut THEN "timeout"
    ELSE IF Len(batch) >= max_batch_size THEN "full" ELSE "deadline"

\* the _process_batch task the worker creates for a batch (line 60)
NewProcessTask(m, batch, rem) ==
    [model |-> m, batch |-> batch, pc |-> "created", rem |-> rem]

\* lines 107-114 of a new cycle: empty batch, deadline batch_timeout from now,
\* then suspended in wait_for
EnterCollect(w) ==
    [w EXCEPT !.pc = "wait_for", !.batch = << >>, !.remaining = batch_timeout]

\* WorkerAfterCollect with the sleep of line 63 outside the else branch: the
\* worker sleeps after every cycle
WorkerAfterCollect_AlwaysSleeps(w, batch, cause) ==
    [worker |-> [w EXCEPT !.pc = "sleep", !.batch = << >>, !.remaining = idle_sleep],
     spawned |-> IF batch # << >>
                   THEN <<NewProcessTask(w.model, batch, w.remaining)>>
                   ELSE << >>]

\* WorkerAfterCollect with the batch processed inline (await _process_batch):
\* the worker waits for the batch before it collects again
WorkerAfterCollect_Awaits(w, batch, cause) ==
    IF batch # << >>
      THEN [worker |-> [w EXCEPT !.pc = "await_process_batch", !.batch = << >>,
                                 !.remaining = 0],
            spawned |-> <<NewProcessTask(w.model, batch, w.remaining)>>]
      ELSE [worker |-> [w EXCEPT !.pc = "sleep", !.batch = << >>,
                                 !.remaining = idle_sleep],
            spawned |-> << >>]

\* WorkerAfterCollect without the test of line 58: every batch, an empty one
\* too, gets a _process_batch task and the next cycle starts at once
WorkerAfterCollect_SpawnsEmpty(w, batch, cause) ==
    [worker |-> EnterCollect(w),
     spawned |-> <<NewProcessTask(w.model, batch, w.remaining)>>]

\* _collect_batch returns batch (line 122) and the worker goes on (lines 58-63):
\* a non-empty batch gets its own _process_batch task and the next cycle starts
\* at once, an empty one puts the worker to sleep
WorkerAfterCollect(w, batch, cause) ==
    IF batch # << >>
      THEN [worker |-> EnterCollect(w),
            spawned |-> <<NewProcessTask(w.model, batch, w.remaining)>>]
      ELSE [worker |-> [w EXCEPT !.pc = "sleep", !.batch = << >>,
                                 !.remaining = idle_sleep],
            spawned |-> << >>]

\* ContinueCollect with the deadline set anew for every element
ContinueCollect_NewDeadline(w, batch) ==
    [w EXCEPT !.batch = batch, !.remaining = batch_timeout]

\* line 118 with the loop condition true: the item is in the batch and the loop
\* waits again, for what is left until the same deadline
ContinueCollect(w, batch) == [w EXCEPT !.batch = batch]

\* the worker task runs for the first time: it enters its first collect cycle
WorkerStart(i) ==
    /\ i \in DOMAIN wtasks
    /\ wtasks[i].pc = "created"
    /\ wtasks' = [wtasks EXCEPT ![i] = EnterCollect(@)]
    /\ requests_queues' = WithQueue(requests_queues, wtasks[i].model,
                                    QueueOf(requests_queues, wtasks[i].model))
    /\ UNCHANGED <<elsewhere, available_models, workers, ptasks, stasks, channel, written, cpc, yielded, reqModel>>

\* lines 114-118 and 111: wait_for returns an item; it is appended, the loop
\* condition is evaluated again, and the loop either waits again or ends
WaitForGet(i) ==
    /\ i \in DOMAIN wtasks
    /\ wtasks[i].pc = "wait_for"
    /\ QueueOf(requests_queues, wtasks[i].model) # << >>
    /\ LET w == wtasks[i]
           q == QueueOf(requests_queues, w.model)
           batch == Append(w.batch, QueueGet(q).item)
           after == WorkerAfterCollect(w, batch, ExitCause(w.remaining, batch, FALSE))
       IN /\ requests_queues' = WithQueue(requests_queues, w.model, QueueGet(q).rest)
          /\ IF LoopCond(w.remaining, batch)
               THEN wtasks' = [wtasks EXCEPT ![i] = ContinueCollect(w, batch)]
                    /\ ptasks' = ptasks
               ELSE wtasks' = [wtasks EXCEPT ![i] = after.worker]
                    /\ ptasks' = ptasks \o after.spawned
    /\ UNCHANGED <<elsewhere, available_models, workers, stasks, channel, written, cpc, yielded, reqModel>>

\* lines 119-121: the wait reaches the deadline, asyncio.TimeoutError ends the
\* loop; the request queue is left as it is
WaitForTimeout(i) ==
    /\ i \in DOMAIN wtasks
    /\ wtasks[i].pc = "wait_for"
    /\ wtasks[i].remaining = 0
    /\ LET w == wtasks[i]
           after == WorkerAfterCollect(w, w.batch, ExitCause(w.remaining, w.batch, TRUE))
       IN /\ wtasks' = [wtasks EXCEPT ![i] = after.worker]
          /\ ptasks' = ptasks \o after.spawned
    /\ UNCHANGED <<elsewhere, available_models, requests_queues, workers, stasks, channel, written, cpc,
                   yielded, reqModel>>

\* line 63 is over: the idle worker wakes up and enters the next cycle
WorkerWake(i) ==
    /\ i \in DOMAIN wtasks
    /\ wtasks[i].pc = "sleep"
    /\ wtasks[i].remaining = 0
    /\ wtasks' = [wtasks EXCEPT ![i] = EnterCollect(@)]
    /\ UNCHANGED <<elsewhere, available_models, requests_queues, workers, ptasks, stasks, channel, written,
                   cpc, yielded, reqModel>>

\* OnWorkerException of workers that are awaited as one group (all created
\* under one gather): the exception of one ends them all
OnWorkerException_EndsAll(ws, i) ==
    [j \in DOMAIN ws |-> [ws[j] EXCEPT !.pc = "failed", !.remaining = 0]]

\* lines 52-63: the loop of _worker has no try, so an exception raised into it
\* ends the task of that worker; the other worker tasks are separate tasks
\* (line 50) that nothing links to it
OnWorkerException(ws, i) ==
    [ws EXCEPT ![i] = [@ EXCEPT !.pc = "failed", !.remaining = 0]]

\* an exception reaches the worker at one of its suspension points (lines 56
\* and 63), or before it has run; the requests of the cycle under way stay in
\* the batch list of the dead frame
WorkerFail(i) ==
    /\ i \in DOMAIN wtasks
    /\ wtasks[i].pc \in {"created", "wait_for", "sleep"}
    /\ wtasks' = OnWorkerException(wtasks, i)
    /\ UNCHANGED <<elsewhere, available_models, requests_queues, workers, ptasks, stasks, channel, written,
                   cpc, yielded, reqModel>>

\* some task is ready to run: the event loop runs it before it waits for the
\* next timer or input
Ready ==
    \/ \E i \in DOMAIN wtasks :
          \/ wtasks[i].pc = "created"
          \/ wtasks[i].pc = "wait_for" /\ QueueOf(requests_queues, wtasks[i].model) # << >>
    \/ \E p \in DOMAIN ptasks :
          \/ ptasks[p].pc = "created"
          \/ ptasks[p].pc = "gather" /\ \A t \in DOMAIN stasks :
                                          stasks[t].ptask = p => stasks[t].pc = "done"
    \/ \E r \in Requests : cpc[r] = "waiting" /\ channel[r] # << >>

\* one tick of time passes: every running timer has one tick less to go
Tick ==
    /\ \E i \in DOMAIN wtasks : wtasks[i].remaining > 0
    /\ ~Ready
    /\ wtasks' = [i \in DOMAIN wtasks |->
                    [wtasks[i] EXCEPT !.remaining = IF @ > 0 THEN @ - 1 ELSE 0]]
    /\ UNCHANGED <<elsewhere, available_models, requests_queues, workers, ptasks, stasks, channel, written,
                   cpc, yielded, reqModel>>

(* ---- QueueHandler._process_batch ---------------------------------------- *)
\* PodHandler.get_url(model): the endpoint serving the model
get_url(m) == <<"endpoint", m>>

\* prompts, response_channels = zip(*batch)
Prompts(batch) == [i \in 1..Len(batch) |-> batch[i].prompt]
ResponseChannels(batch) == [i \in 1..Len(batch) |-> batch[i].response_channel]

\* a _stream_single_request task as create_task leaves it (lines 145-147)
NewStreamTask(url, m, prompt, response_channel, p) ==
    [url |-> url, model |-> m, prompt |-> prompt,
     response_channel |-> response_channel, ptask |-> p,
     pc |-> "streaming", emitted |-> 0, result |-> "pending"]

\* BatchTasks with every task given the first response channel of the batch
BatchTasks_FirstChannel(m, batch, p) ==
    [i \in 1..Len(batch) |->
        NewStreamTask(get_url(m), m, Prompts(batch)[i], ResponseChannels(batch)[1], p)]

\* lines 143-148: one task per prompt, task i with prompts[i] and
\* response_channels[i]
BatchTasks(m, batch, p) ==
    [i \in 1..Len(batch) |->
        NewStreamTask(get_url(m), m, Prompts(batch)[i], ResponseChannels(batch)[i], p)]

\* lines 130-151 up to the await: the task unpacks the batch, looks up the
\* endpoint and creates the upstream-call tasks, then waits in gather
ProcessBatchStart(p) ==
    /\ p \in DOMAIN ptasks
    /\ ptasks[p].pc = "created"
    /\ \A o \in DOMAIN ptasks : o < p => ptasks[o].pc # "created"
    /\ stasks' = stasks \o BatchTasks(ptasks[p].model, ptasks[p].batch, p)
    /\ ptasks' = [ptasks EXCEPT ![p].pc = "gather"]
    /\ UNCHANGED <<elsewhere, available_models, requests_queues, workers, wtasks, channel, written, cpc,
                   yielded, reqModel>>

\* DetachedFailure with the task awaited by the worker: the exception of the
\* task is raised in the worker of its model and ends it
DetachedFailure_Propagates(ws, p) ==
    [i \in DOMAIN ws |->
        IF ws[i].model = ptasks[p].model THEN [ws[i] EXCEPT !.pc = "dead"] ELSE ws[i]]

\* line 60: the worker keeps no reference to the _process_batch task and never
\* awaits it, so an exception that ends the task stays in the task object and
\* the worker tasks are left as they are
DetachedFailure(ws, p) == ws

\* lines 133-134 raise: the endpoint or API-key lookup fails outside any try
\* block; the task ends with the exception before it has created an
\* upstream-call task or touched a response channel
ProcessBatchFail(p) ==
    /\ p \in DOMAIN ptasks
    /\ ptasks[p].pc = "created"
    /\ \A o \in DOMAIN ptasks : o < p => ptasks[o].pc # "created"
    /\ ptasks' = [ptasks EXCEPT ![p].pc = "raised"]
    /\ wtasks' = DetachedFailure(wtasks, p)
    /\ UNCHANGED <<elsewhere, available_models, requests_queues, workers, stasks, channel, written, cpc,
                   yielded, reqModel>>

\* the tasks of _process_batch task p
TasksOf(p) == {t \in DOMAIN stasks : stasks[t].ptask = p}

\* ProcessBatchReturn with a wait that ends with the first task that is done
\* (asyncio.wait(tasks, return_when=FIRST_COMPLETED))
ProcessBatchReturn_FirstCompleted(p) ==
    /\ p \in DOMAIN ptasks
    /\ ptasks[p].pc = "gather"
    /\ \E t \in TasksOf(p) : stasks[t].pc = "done"
    /\ ptasks' = [ptasks EXCEPT ![p].pc = "returned"]
    /\ UNCHANGED <<elsewhere, available_models, requests_queues, workers, wtasks, stasks, channel, written,
                   cpc, yielded, reqModel>>

\* line 151: gather(*tasks, return_exceptions=True) is over once every task of
\* the batch is done, whatever its result; _process_batch returns None
ProcessBatchReturn(p) ==
    /\ p \in DOMAIN ptasks
    /\ ptasks[p].pc = "gather"
    /\ \A t \in TasksOf(p) : stasks[t].pc = "done"
    /\ ptasks' = [ptasks EXCEPT ![p].pc = "returned"]
    /\ UNCHANGED <<elsewhere, available_models, requests_queues, workers, wtasks, stasks, channel, written,
                   cpc, yielded, reqModel>>

(* ---- QueueHandler._stream_single_request -------------------------------- *)
\* await c.put(x): one put of a task, on channel c
Put(c, x) == [to |-> c, item |-> x]

\* the items a sequence of puts adds to channel c, in order
ItemsFor(puts, c) ==
    LET mine == SelectSeq(puts, LAMBDA u : u.to = c)
    IN  [k \in 1..Len(mine) |-> mine[k].item]

\* ChannelPuts of a task that empties the channel before it reports an error:
\* the fragments not yet read are withdrawn
ChannelPuts_DropsUnread(puts) ==
    /\ channel' = [c \in Requests |->
                     IF \E k \in DOMAIN ItemsFor(puts, c) : ItemsFor(puts, c)[k].kind = "error"
                       THEN ItemsFor(puts, c)
                       ELSE channel[c] \o ItemsFor(puts, c)]
    /\ written' = [c \in Requests |-> written[c] \o ItemsFor(puts, c)]

\* a task runs a sequence of puts; no put on an unbounded queue suspends it
ChannelPuts(puts) ==
    /\ channel' = [c \in Requests |-> channel[c] \o ItemsFor(puts, c)]
    /\ written' = [c \in Requests |-> written[c] \o ItemsFor(puts, c)]

\* PutContent with the token put twice
PutContent_Twice(task, k) ==
    <<Put(task.response_channel, Fragment(task.prompt, k)),
      Put(task.response_channel, Fragment(task.prompt, k))>>

\* line 195: the k-th content delta of the call is put on the task's channel
PutContent(task, k) == <<Put(task.response_channel, Fragment(task.prompt, k))>>

\* OnException with the error message sent to every client of the batch
OnException_Broadcast(task) ==
    [i \in 1..Len(ptasks[task.ptask].batch) |->
        Put(ptasks[task.ptask].batch[i].response_channel, ErrorFragment(task.prompt))]
    \o <<Put(task.response_channel, EndOfStream)>>

\* OnException with the error message put by two handlers
OnException_TwoErrors(task) ==
    <<Put(task.response_channel, ErrorFragment(task.prompt)),
      Put(task.response_channel, ErrorFragment(task.prompt)),
      Put(task.response_channel, EndOfStream)>>

\* OnException without the finally clause: the error message is put, None is not
OnException_NoMarker(task) ==
    <<Put(task.response_channel, ErrorFragment(task.prompt))>>

\* lines 197-202: the call raises an Exception; the except clause puts the
\* error message and the finally clause puts None, both on the task's channel
OnException(task) ==
    <<Put(task.response_channel, ErrorFragment(task.prompt)),
      Put(task.response_channel, EndOfStream)>>

\* OnExhausted with None put by the loop's end and again by the finally clause
OnExhausted_TwoMarkers(task) ==
    <<Put(task.response_channel, EndOfStream), Put(task.response_channel, EndOfStream)>>

\* lines 200-202: the stream is exhausted, the finally clause puts None
OnExhausted(task) == <<Put(task.response_channel, EndOfStream)>>

\* lines 197-202: asyncio.CancelledError is a BaseException, which
\* `except Exception` does not catch; only the finally clause runs
OnCancelled(task) == <<Put(task.response_channel, EndOfStream)>>

\* the number of content fragments the upstream calls 1..n have emitted
RECURSIVE TotalEmitted(_, _)
TotalEmitted(tasks, n) ==
    IF n = 0 THEN 0 ELSE tasks[n].emitted + TotalEmitted(tasks, n - 1)

\* lines 180-195: the upstream sends a line with a content delta
Emit(t) ==
    /\ t \in DOMAIN stasks
    /\ stasks[t].pc = "streaming"
    /\ TotalEmitted(stasks, Len(stasks)) < MaxFragments
    /\ ChannelPuts(PutContent(stasks[t], stasks[t].emitted + 1))
    /\ stasks' = [stasks EXCEPT ![t].emitted = @ + 1]
    /\ UNCHANGED <<elsewhere, available_models, requests_queues, workers, wtasks, ptasks, cpc, yielded, reqModel>>

(* ---- the response body, line by line (lines 180-195) -------------------- *)
\* the JSON values a delta carries as its content
JsonString(text) == [type |-> "string", text |-> text]
JsonNull == [type |-> "null", text |-> ""]

\* a delta object, with a "content" key or without one
Delta(has_content, content) == [has_content |-> has_content, content |-> content]
TextDelta == Delta(TRUE, JsonString("tok"))
EmptyDelta == Delta(TRUE, JsonString(""))
NullDelta == Delta(TRUE, JsonNull)
RoleDelta == Delta(FALSE, JsonNull)
Deltas == {TextDelta, EmptyDelta, NullDelta, RoleDelta}

\* a line of the response: blank, the data: [DONE] line, a line that does not
\* start with "data: " (a comment or another SSE field), a data line whose rest
\* is not JSON, or a data line with the deltas of its choices (no "choices" key
\* reads as the empty list)
Line(kind, choices) == [kind |-> kind, choices |-> choices]
Lines ==
    {Line("blank", << >>), Line("done", << >>), Line("comment", << >>), Line("invalid", << >>)}
    \cup {Line("data", << >>)}
    \cup {Line("data", <<d>>) : d \in Deltas}
    \cup {Line("data", <<d, TextDelta>>) : d \in {EmptyDelta, TextDelta}}

\* line 181: not line.strip() or line.strip() == "data: [DONE]"
Skipped(line) == line.kind \in {"blank", "done"}

\* line 184: line.startswith("data: ")
StartsWithData(line) == line.kind \in {"data", "invalid"}

\* line 186: json.loads raises on a rest that is not JSON
LoadsRaises(line) == line.kind = "invalid"

\* line 191: delta.get("content", "")
DeltaGet(delta) == IF delta.has_content THEN delta.content ELSE JsonString("")

\* Truthy of a loop that puts every content it reads (no test at line 193)
Truthy_Always(content) == TRUE

\* line 193: `if content:` is false for None and for the empty string
Truthy(content) == content.type = "string" /\ content.text # ""

\* an empty string, were it put on a channel
EmptyFragment(p) == [kind |-> "empty", prompt |-> p, k |-> 0]

\* the channel item a content value is: JSON null is None in Python, the value
\* of the end-of-stream signal; a non-empty string is the k-th fragment
ContentItem(task, content, k) ==
    IF content = JsonNull THEN EndOfStream
    ELSE IF content.text = "" THEN EmptyFragment(task.prompt)
    ELSE Fragment(task.prompt, k)

\* lines 189-195: the puts of the choices of one data line, in order; k content
\* items were put by the call before
RECURSIVE ChoicePuts(_, _, _)
ChoicePuts(task, choices, k) ==
    IF choices = << >> THEN << >>
    ELSE LET content == DeltaGet(Head(choices)) IN
         IF Truthy(content)
           THEN <<Put(task.response_channel, ContentItem(task, content, k + 1))>>
                \o ChoicePuts(task, Tail(choices), k + 1)
           ELSE ChoicePuts(task, Tail(choices), k)

\* lines 181-195 for one line: the puts it causes, or the exception it raises
HandleLine(task, line) ==
    IF Skipped(line) \/ ~StartsWithData(line) THEN [raised |-> FALSE, puts |-> << >>]
    ELSE IF LoadsRaises(line) THEN [raised |-> TRUE, puts |-> << >>]
    ELSE [raised |-> FALSE, puts |-> ChoicePuts(task, line.choices, task.emitted)]

\* the number of lines the upstream calls have read, over all requests
RECURSIVE TotalLines(_, _)
TotalLines(lines, n) == IF n = 0 THEN 0 ELSE Len(lines[n]) + TotalLines(lines, n - 1)

\* lines 180-199: the upstream sends one line and the loop body runs for it;
\* an exception of json.loads goes to the except and finally clauses
LineArrives(t, line) ==
    /\ t \in DOMAIN stasks
    /\ stasks[t].pc = "streaming"
    /\ TotalLines(received, NumRequests) < MaxLines
    /\ LET handled == HandleLine(stasks[t], line) IN
         IF handled.raised
           THEN /\ ChannelPuts(OnException(stasks[t]))
                /\ stasks' = [stasks EXCEPT ![t].pc = "done", ![t].result = "error"]
           ELSE /\ ChannelPuts(handled.puts)
                /\ stasks' = [stasks EXCEPT ![t].emitted = @ + Len(handled.puts)]
    /\ received' = [received EXCEPT ![stasks[t].prompt] = Append(@, line)]
    /\ UNCHANGED <<wsvars, pivars, available_models, requests_queues, workers, wtasks, ptasks,
                   cpc, yielded, reqModel>>

\* the upstream ends the stream: the loop of line 180 ends, finally runs
Exhaust(t) ==
    /\ t \in DOMAIN stasks
    /\ stasks[t].pc = "streaming"
    /\ ChannelPuts(OnExhausted(stasks[t]))
    /\ stasks' = [stasks EXCEPT ![t].pc = "done", ![t].result = "ok"]
    /\ UNCHANGED <<elsewhere, available_models, requests_queues, workers, wtasks, ptasks, cpc, yielded, reqModel>>

\* the call raises (connection, HTTP, timeout or JSON error), before any
\* fragment or between two fragments
Raise(t) ==
    /\ t \in DOMAIN stasks
    /\ stasks[t].pc = "streaming"
    /\ ChannelPuts(OnException(stasks[t]))
    /\ stasks' = [stasks EXCEPT ![t].pc = "done", ![t].result = "error"]
    /\ UNCHANGED <<elsewhere, available_models, requests_queues, workers, wtasks, ptasks, cpc, yielded, reqModel>>

\* the task is cancelled while it waits for the upstream
Cancel(t) ==
    /\ t \in DOMAIN stasks
    /\ stasks[t].pc = "streaming"
    /\ ChannelPuts(OnCancelled(stasks[t]))
    /\ stasks' = [stasks EXCEPT ![t].pc = "done", ![t].result = "cancelled"]
    /\ UNCHANGED <<elsewhere, available_models, requests_queues, workers, wtasks, ptasks, cpc, yielded, reqModel>>

(* ---- the system --------------------------------------------------------- *)
Next ==
    \/ start_workers
    \/ \E r \in 1..NumStreamed, m \in Configured : Submit(r, m)
    \/ \E r \in Requests : ConsumerGet(r)
    \/ \E i \in DOMAIN wtasks : WorkerStart(i)
    \/ \E i \in DOMAIN wtasks : WaitForGet(i)
    \/ \E i \in DOMAIN wtasks : WaitForTimeout(i)
    \/ \E i \in DOMAIN wtasks : WorkerWake(i)
    \/ Tick
    \/ \E p \in DOMAIN ptasks : ProcessBatchStart(p)
    \/ \E p \in DOMAIN ptasks : ProcessBatchReturn(p)
    \/ \E t \in DOMAIN stasks : Emit(t)
    \/ \E t \in DOMAIN stasks : Exhaust(t)
    \/ \E t \in DOMAIN stasks : Raise(t)

Spec == Init /\ [][Next]_vars

\* the indexes a task can have in wtasks, ptasks or stasks
TaskIds == 1..NumRequests

\* the scheduling the event loop, the clock and the upstream guarantee: a task
\* that is ready to run is run, time passes, and every upstream call ends (its
\* stream is finite, or the call fails, at the latest by the 60 s timeout of
\* httpx); clients are free never to submit
Fairness ==
    /\ WF_vars(start_workers)
    /\ WF_vars(Tick)
    /\ \A i \in TaskIds :
          /\ WF_vars(WorkerStart(i))
          /\ WF_vars(WaitForGet(i))
          /\ WF_vars(WaitForTimeout(i))
          /\ WF_vars(WorkerWake(i))
          /\ WF_vars(ProcessBatchStart(i))
          /\ WF_vars(ProcessBatchReturn(i))
          /\ WF_vars(Exhaust(i) \/ Raise(i))
    /\ \A r \in Requests : WF_vars(ConsumerGet(r))

\* the whole system with NumLive client requests
NextLive ==
    \/ start_workers
    \/ \E r \in 1..NumLive, m \in Configured : Submit(r, m)
    \/ \E r \in Requests : ConsumerGet(r)
    \/ \E i \in DOMAIN wtasks : WorkerStart(i)
    \/ \E i \in DOMAIN wtasks : WaitForGet(i)
    \/ \E i \in DOMAIN wtasks : WaitForTimeout(i)
    \/ \E i \in DOMAIN wtasks : WorkerWake(i)
    \/ Tick
    \/ \E p \in DOMAIN ptasks : ProcessBatchStart(p)
    \/ \E p \in DOMAIN ptasks : ProcessBatchReturn(p)
    \/ \E t \in DOMAIN stasks : Emit(t)
    \/ \E t \in DOMAIN stasks : Exhaust(t)
    \/ \E t \in DOMAIN stasks : Raise(t)

FairSpec == Init /\ [][NextLive]_vars /\ Fairness

\* the system when upstream-call tasks may also be cancelled while in flight
NextCancel ==
    \/ NextLive
    \/ \E t \in DOMAIN stasks : Cancel(t)

SpecCancel == Init /\ [][NextCancel]_vars

\* the batch collectors, the worker loops and the start of the dispatch in the
\* default deployment, for NumRequests requests; the upstream calls make no
\* progress
NextCollect ==
    \/ start_workers
    \/ \E r \in Requests, m \in Configured : Submit(r, m)
    \/ \E i \in DOMAIN wtasks : WorkerStart(i)
    \/ \E i \in DOMAIN wtasks : WaitForGet(i)
    \/ \E i \in DOMAIN wtasks : WaitForTimeout(i)
    \/ \E i \in DOMAIN wtasks : WorkerWake(i)
    \/ Tick
    \/ \E p \in DOMAIN ptasks : ProcessBatchStart(p)

SpecCollect == InitDefault /\ [][NextCollect]_vars

\* a burst: every request is submitted before the first worker has run for the
\* first time, and none arrives later
NextBurst ==
    \/ start_workers
    \/ \E r \in Requests, m \in Configured :
          /\ \A i \in DOMAIN wtasks : wtasks[i].pc = "created"
          /\ Submit(r, m)
    \/ \E i \in DOMAIN wtasks : WorkerStart(i)
    \/ \E i \in DOMAIN wtasks : WaitForGet(i)
    \/ \E i \in DOMAIN wtasks : WaitForTimeout(i)
    \/ \E i \in DOMAIN wtasks : WorkerWake(i)
    \/ Tick
    \/ \E p \in DOMAIN ptasks : ProcessBatchStart(p)

SpecBurst == InitDefault /\ [][NextBurst]_vars

\* the collectors, the worker loop and the start of the dispatch when no
\* upstream call ever makes progress
NextStuck ==
    \/ start_workers
    \/ \E r \in 1..NumStreamed, m \in Configured : Submit(r, m)
    \/ \E i \in DOMAIN wtasks : WorkerStart(i)
    \/ \E i \in DOMAIN wtasks : WaitForGet(i)
    \/ \E i \in DOMAIN wtasks : WaitForTimeout(i)
    \/ \E i \in DOMAIN wtasks : WorkerWake(i)
    \/ Tick
    \/ \E p \in DOMAIN ptasks : ProcessBatchStart(p)

\* the scheduling of the event loop and the clock alone: a task that is ready
\* to run is run and time passes; nothing is assumed of the upstream
FairnessCollect ==
    /\ WF_vars(start_workers)
    /\ WF_vars(Tick)
    /\ \A i \in TaskIds :
          /\ WF_vars(WorkerStart(i))
          /\ WF_vars(WaitForGet(i))
          /\ WF_vars(WaitForTimeout(i))
          /\ WF_vars(WorkerWake(i))
          /\ WF_vars(ProcessBatchStart(i))

FairStuck == InitDefault /\ [][NextStuck]_vars /\ FairnessCollect

\* the whole system with NumLive client requests when the endpoint or API-key
\* lookup of _process_batch may raise
NextLookup ==
    \/ NextLive
    \/ \E p \in DOMAIN ptasks : ProcessBatchFail(p)

SpecLookup == Init /\ [][NextLookup]_vars

\* the collectors, the worker loops and the start of the dispatch when the
\* lookup of _process_batch may raise; the upstream calls make no progress
NextDispatch ==
    \/ NextStuck
    \/ \E p \in DOMAIN ptasks : ProcessBatchFail(p)

FairLookup == InitDefault /\ [][NextDispatch]_vars /\ FairnessCollect

\* a model identifier that AVAILABLE_MODELS does not name
UnknownModel == "gpt2"

\* the whole system with NumLive client requests, for configured models or for
\* the unknown one
NextUnknown ==
    \/ NextLive
    \/ \E r \in 1..NumLive : Submit(r, UnknownModel)

FairUnknown == Init /\ [][NextUnknown]_vars /\ Fairness

\* the collectors, the worker loops and the start of the dispatch when a
\* worker task may end with an exception; the upstream calls make no progress
NextCrash ==
    \/ NextStuck
    \/ \E i \in DOMAIN wtasks : WorkerFail(i)

SpecCrash == InitDefault /\ [][NextCrash]_vars

\* a deployment whose AVAILABLE_MODELS names a model twice (qwen,qwen)
InitTwice == InitWith(<<"qwen", "qwen">>)

\* the collectors, the worker loops and the start of the dispatch when
\* start_workers may be called again; the upstream calls make no progress
NextRestart ==
    \/ NextStuck
    \/ start_workers_again

\* the deployment with a model named twice, start_workers called up to
\* MaxStarts times
SpecTwice == InitTwice /\ [][NextRestart]_vars

(* ---- routers/eval_router.py: evaluation ---------------------------------- *)
\* a key of the message object: <<v>> when present with value v, << >> when
\* the object has no such key
Key(v) == <<v>>
NoKey == << >>

\* data.get(key, default)
DataGet(field, default) == IF field = NoKey THEN default ELSE field[1]

\* line 25: the model a message without a "model" key is served by
DefaultModel == "llama-3-70b"

\* a text message of the client: text that is not JSON, or a JSON object
Message(kind, model, prompt) == [kind |-> kind, model |-> model, prompt |-> prompt]
Messages ==
    {Message("invalid", NoKey, NoKey)}
    \cup {Message("json", m, q) : m \in {Key("qwen"), Key(UnknownModel), NoKey},
                                  q \in {Key("hi"), Key(""), NoKey}}

\* lines 26-28: the message has a prompt that is not empty
HasPrompt(msg) == msg.kind = "json" /\ DataGet(msg.prompt, "") # ""

\* the number of messages among the first k received that were passed to
\* stream_inference; it is the number of the request of the last of them
RECURSIVE Streamed(_, _)
Streamed(msgs, k) ==
    IF k = 0 THEN 0 ELSE (IF HasPrompt(msgs[k]) THEN 1 ELSE 0) + Streamed(msgs, k - 1)

\* the messages of the server, each with the number of the received message
\* it answers
TokenMessage(k, token) == [type |-> "token", msg |-> k, token |-> token]
DoneMessage(k) == [type |-> "done", msg |-> k, token |-> EndOfStream]
ErrorMessage(k) == [type |-> "error", msg |-> k, token |-> EndOfStream]

\* line 17: await websocket.accept()
WsAccept ==
    /\ ws_pc = "connecting"
    /\ ws_pc' = "receive"
    /\ UNCHANGED <<received, pivars, ws_in, ws_out, available_models, requests_queues, workers,
                   wtasks, ptasks, stasks, channel, written, cpc, yielded, reqModel>>

\* lines 20-34: the next message arrives.  Text that is not JSON makes
\* json.loads raise: line 47 sends the error and the handler returns.  Without
\* a prompt the error of line 29 is sent and the loop goes on.  Otherwise the
\* loop of line 34 starts stream_inference, which runs to its first get: it
\* puts the request on the queue of the model (line 83 of queue_handler.py)
WsReceive(msg) ==
    /\ ws_pc = "receive"
    /\ Len(ws_in) < MaxMessages
    /\ ws_in' = Append(ws_in, msg)
    /\ LET k == Len(ws_in) + 1
           r == Streamed(ws_in, Len(ws_in)) + 1
           model == DataGet(msg.model, DefaultModel)
       IN  IF msg.kind = "invalid"
             THEN /\ ws_out' = Append(ws_out, ErrorMessage(k))
                  /\ ws_pc' = "returned"
                  /\ UNCHANGED <<requests_queues, cpc, reqModel>>
           ELSE IF ~HasPrompt(msg)
             THEN /\ ws_out' = Append(ws_out, ErrorMessage(k))
                  /\ ws_pc' = "receive"
                  /\ UNCHANGED <<requests_queues, cpc, reqModel>>
           ELSE /\ requests_queues' = WithQueue(requests_queues, model,
                        QueuePut(QueueOf(requests_queues, model), PendingRequest(r)))
                /\ cpc' = [cpc EXCEPT ![r] = "waiting"]
                /\ reqModel' = [reqModel EXCEPT ![r] = model]
                /\ ws_out' = ws_out
                /\ ws_pc' = "streaming"
    /\ UNCHANGED <<received, pivars, available_models, workers, wtasks, ptasks, stasks, channel,
                   written, yielded>>

\* lines 34-40: stream_inference gets the next item of the channel (lines 87-90
\* of queue_handler.py); a token is yielded and sent (line 36), None ends the
\* generator and done is sent (line 40), then the handler waits for a message
WsToken ==
    /\ ws_pc = "streaming"
    /\ LET k == Len(ws_in)
           r == Streamed(ws_in, Len(ws_in))
       IN  /\ channel[r] # << >>
           /\ LET token == QueueGet(channel[r]).item IN
                /\ channel' = [channel EXCEPT ![r] = QueueGet(channel[r]).rest]
                /\ IF token = EndOfStream
                     THEN /\ cpc' = [cpc EXCEPT ![r] = "done"]
                          /\ yielded' = yielded
                          /\ ws_out' = Append(ws_out, DoneMessage(k))
                          /\ ws_pc' = "receive"
                     ELSE /\ cpc' = cpc
                          /\ yielded' = [yielded EXCEPT ![r] = Append(@, token)]
                          /\ ws_out' = Append(ws_out, TokenMessage(k, token))
                          /\ ws_pc' = "streaming"
    /\ UNCHANGED <<received, pivars, ws_in, available_models, requests_queues, workers, wtasks,
                   ptasks, stasks, written, reqModel>>

\* the whole system behind one WebSocket connection whose client stays
\* connected
NextWs ==
    \/ start_workers
    \/ WsAccept
    \/ \E msg \in Messages : WsReceive(msg)
    \/ WsToken
    \/ \E i \in DOMAIN wtasks : WorkerStart(i)
    \/ \E i \in DOMAIN wtasks : WaitForGet(i)
    \/ \E i \in DOMAIN wtasks : WaitForTimeout(i)
    \/ \E i \in DOMAIN wtasks : WorkerWake(i)
    \/ Tick
    \/ \E p \in DOMAIN ptasks : ProcessBatchStart(p)
    \/ \E p \in DOMAIN ptasks : ProcessBatchReturn(p)
    \/ \E t \in DOMAIN stasks : Emit(t)
    \/ \E t \in DOMAIN stasks : Exhaust(t)
    \/ \E t \in DOMAIN stasks : Raise(t)

\* the scheduling of the event loop, the clock and the upstream, as in
\* Fairness, with the handler of the connection as the consumer; the client is
\* free never to send
FairnessWs ==
    /\ FairnessCollect
    /\ \A i \in TaskIds :
          /\ WF_vars(ProcessBatchReturn(i))
          /\ WF_vars(Exhaust(i) \/ Raise(i))
    /\ WF_vars(WsAccept)
    /\ WF_vars(WsToken)

FairWs == Init /\ [][NextWs]_vars /\ FairnessWs

(* ---- utils/prime_intellect_client.py: PrimeIntellectClient -------------- *)
\* data['id'] of the answer to the create request
NewPod == "pod-1"

\* what get_pod_status returns: an object with a "status" key or without one
StatusReports ==
    {Key("RUNNING"), Key("FAILED"), Key("TERMINATED"), Key("PROVISIONING"), NoKey}

\* status.get('status')
StatusGet(report) == DataGet(report, "None")

\* PollLimit of a loop that runs once more (range(timeout // 10 + 1))
PollLimit_OneMore(timeout) == timeout \div PollInterval + 1

\* line 113: range(timeout // 10), the number of passes of the loop
PollLimit(timeout) == timeout \div PollInterval

\* lines 205-210 of chat_complete when an exception reaches it: the error is
\* yielded, and the finally clause deletes the pod only if the local pod_id was
\* assigned
OnChatException(out, pod) ==
    IF pod # NoPod
      THEN [out |-> out \o <<"[Error]", "[Cleaning up pod...]">>, pc |-> "delete_pod"]
      ELSE [out |-> Append(out, "[Error]"), pc |-> "finished"]

\* wait_for_pod_ready ends: with True it returns to its caller (for create_pod,
\* lines 105-106 and 200-202: the id is returned, chat_complete assigns it and
\* yields the next status); an exception goes to the caller of the method or
\* through create_pod to the except clause of chat_complete
EndWait(result) ==
    /\ IF pi_entry = "chat_complete"
         THEN IF result = "True"
                THEN /\ pod_id' = NewPod
                     /\ pi_out' = Append(pi_out, "[Pod ready, generating response...]")
                     /\ pi_pc' = "stream_chat"
                ELSE /\ pod_id' = pod_id
                     /\ pi_out' = OnChatException(pi_out, pod_id).out
                     /\ pi_pc' = OnChatException(pi_out, pod_id).pc
         ELSE /\ pod_id' = pod_id
              /\ pi_out' = Append(pi_out, result)
              /\ pi_pc' = "finished"

\* a caller calls wait_for_pod_ready(pod_id, timeout)
WaitCall(timeout) ==
    /\ pi_pc = "idle"
    /\ pi_entry' = "wait_for_pod_ready"
    /\ pi_pc' = "wait_for_pod_ready"
    /\ wait' = [timeout |-> timeout, polls |-> 0, status |-> "none", result |-> "none"]
    /\ UNCHANGED <<received, wsvars, pod_id, created, deleted, pi_out, available_models,
                   requests_queues, workers, wtasks, ptasks, stasks, channel, written, cpc,
                   yielded, reqModel>>

\* lines 196-200: chat_complete is started and yields its first status; then it
\* is in create_pod
ChatCompleteStart ==
    /\ pi_pc = "idle"
    /\ pi_entry' = "chat_complete"
    /\ pi_pc' = "create_pod"
    /\ pi_out' = Append(pi_out, "[Creating pod...]")
    /\ UNCHANGED <<received, wsvars, pod_id, created, deleted, wait, available_models,
                   requests_queues, workers, wtasks, ptasks, stasks, channel, written, cpc,
                   yielded, reqModel>>

\* lines 59-60 and 108-109: no GPU is cheap enough or the create request is not
\* answered with 201; create_pod raises and no pod exists
CreatePodRefused ==
    /\ pi_pc = "create_pod"
    /\ pi_out' = OnChatException(pi_out, pod_id).out
    /\ pi_pc' = OnChatException(pi_out, pod_id).pc
    /\ UNCHANGED <<received, wsvars, pi_entry, pod_id, created, deleted, wait, available_models,
                   requests_queues, workers, wtasks, ptasks, stasks, channel, written, cpc,
                   yielded, reqModel>>

\* lines 101-105: the create request is answered with 201, the pod exists, and
\* create_pod calls wait_for_pod_ready(pod_id) with the default timeout
CreatePodCreated ==
    /\ pi_pc = "create_pod"
    /\ created' = created \cup {NewPod}
    /\ wait' = [timeout |-> DefaultTimeout, polls |-> 0, status |-> "none", result |-> "none"]
    /\ pi_pc' = "wait_for_pod_ready"
    /\ UNCHANGED <<received, wsvars, pi_entry, pod_id, deleted, pi_out, available_models,
                   requests_queues, workers, wtasks, ptasks, stasks, channel, written, cpc,
                   yielded, reqModel>>

\* lines 113-122: one pass of the loop: the status is polled; RUNNING returns
\* True, FAILED or TERMINATED raises, anything else sleeps and goes on
Poll(report) ==
    /\ pi_pc = "wait_for_pod_ready"
    /\ wait.polls < PollLimit(wait.timeout)
    /\ LET status == StatusGet(report)
           result == IF status = "RUNNING" THEN "True"
                     ELSE IF status \in {"FAILED", "TERMINATED"} THEN "failed"
                     ELSE "none"
       IN  /\ wait' = [wait EXCEPT !.polls = @ + 1, !.status = status, !.result = result]
           /\ IF result = "none"
                THEN UNCHANGED <<pod_id, pi_out, pi_pc>>
                ELSE EndWait(result)
    /\ UNCHANGED <<received, wsvars, pi_entry, created, deleted, available_models,
                   requests_queues, workers, wtasks, ptasks, stasks, channel, written, cpc,
                   yielded, reqModel>>

\* line 124: the loop has made all its passes; the timeout error is raised
WaitTimeout ==
    /\ pi_pc = "wait_for_pod_ready"
    /\ wait.polls >= PollLimit(wait.timeout)
    /\ wait' = [wait EXCEPT !.result = "timeout"]
    /\ EndWait("timeout")
    /\ UNCHANGED <<received, wsvars, pi_entry, created, deleted, available_models,
                   requests_queues, workers, wtasks, ptasks, stasks, channel, written, cpc,
                   yielded, reqModel>>

\* the number of chunks among the values yielded
Chunks(out) == Len(SelectSeq(out, LAMBDA x : x = "chunk"))

\* lines 202-203: stream_chat yields a chunk and chat_complete yields it on
StreamChunk ==
    /\ pi_pc = "stream_chat"
    /\ Chunks(pi_out) < MaxFragments
    /\ pi_out' = Append(pi_out, "chunk")
    /\ UNCHANGED <<received, wsvars, pi_pc, pi_entry, pod_id, created, deleted, wait,
                   available_models, requests_queues, workers, wtasks, ptasks, stasks, channel,
                   written, cpc, yielded, reqModel>>

\* stream_chat is exhausted; the finally clause yields its status (line 210)
StreamEnds ==
    /\ pi_pc = "stream_chat"
    /\ pi_out' = Append(pi_out, "[Cleaning up pod...]")
    /\ pi_pc' = "delete_pod"
    /\ UNCHANGED <<received, wsvars, pi_entry, pod_id, created, deleted, wait, available_models,
                   requests_queues, workers, wtasks, ptasks, stasks, channel, written, cpc,
                   yielded, reqModel>>

\* stream_chat raises (the status request or the chat request fails)
StreamFails ==
    /\ pi_pc = "stream_chat"
    /\ pi_out' = OnChatException(pi_out, pod_id).out
    /\ pi_pc' = OnChatException(pi_out, pod_id).pc
    /\ UNCHANGED <<received, wsvars, pi_entry, pod_id, created, deleted, wait, available_models,
                   requests_queues, workers, wtasks, ptasks, stasks, channel, written, cpc,
                   yielded, reqModel>>

\* line 211: delete_pod(pod_id) sends the delete request; the generator ends
DeletePod ==
    /\ pi_pc = "delete_pod"
    /\ deleted' = deleted \cup {pod_id}
    /\ pi_pc' = "finished"
    /\ UNCHANGED <<received, wsvars, pi_entry, pod_id, created, wait, pi_out, available_models,
                   requests_queues, workers, wtasks, ptasks, stasks, channel, written, cpc,
                   yielded, reqModel>>

\* one call of the client: chat_complete, or wait_for_pod_ready with a timeout
\* of the caller's choice
NextPods ==
    \/ \E timeout \in 0..MaxTimeout : WaitCall(timeout)
    \/ ChatCompleteStart
    \/ CreatePodRefused
    \/ CreatePodCreated
    \/ \E report \in StatusReports : Poll(report)
    \/ WaitTimeout
    \/ StreamChunk
    \/ StreamEnds
    \/ StreamFails
    \/ DeletePod

SpecPods == Init /\ [][NextPods]_vars

\* the whole system for a single client request, with the response of the
\* upstream modelled line by line
NextLines ==
    \/ start_workers
    \/ \E r \in Requests, m \in Configured :
          /\ \A o \in Requests : cpc[o] = "new"
          /\ Submit(r, m)
    \/ \E r \in Requests : ConsumerGet(r)
    \/ \E i \in DOMAIN wtasks : WorkerStart(i)
    \/ \E i \in DOMAIN wtasks : WaitForGet(i)
    \/ \E i \in DOMAIN wtasks : WaitForTimeout(i)
    \/ \E i \in DOMAIN wtasks : WorkerWake(i)
    \/ Tick
    \/ \E p \in DOMAIN ptasks : ProcessBatchStart(p)
    \/ \E p \in DOMAIN ptasks : ProcessBatchReturn(p)
    \/ \E t \in DOMAIN stasks, line \in Lines : LineArrives(t, line)
    \/ \E t \in DOMAIN stasks : Exhaust(t)
    \/ \E t \in DOMAIN stasks : Raise(t)

SpecLines == Init /\ [][NextLines]_vars

\* the whole system when a client may stop reading its stream at any time; the
\* requests are submitted before the worker has run for the first time
NextAbandon ==
    \/ start_workers
    \/ \E r \in 1..NumStreamed, m \in Configured :
          /\ \A i \in DOMAIN wtasks : wtasks[i].pc = "created"
          /\ Submit(r, m)
    \/ \E r \in Requests : ConsumerGet(r)
    \/ \E r \in Requests : Abandon(r)
    \/ \E i \in DOMAIN wtasks : WorkerStart(i)
    \/ \E i \in DOMAIN wtasks : WaitForGet(i)
    \/ \E i \in DOMAIN wtasks : WaitForTimeout(i)
    \/ \E i \in DOMAIN wtasks : WorkerWake(i)
    \/ Tick
    \/ \E p \in DOMAIN ptasks : ProcessBatchStart(p)
    \/ \E p \in DOMAIN ptasks : ProcessBatchReturn(p)
    \/ \E t \in DOMAIN stasks : Emit(t)
    \/ \E t \in DOMAIN stasks : Exhaust(t)
    \/ \E t \in DOMAIN stasks : Raise(t)

SpecAbandon == Init /\ [][NextAbandon]_vars

(* ======================================================================= *)
(* Properties                                                              *)
(* ======================================================================= *)
\* the upstream-call tasks created for the pending request of r
CallsFor(r) == {t \in DOMAIN stasks : stasks[t].prompt = PendingRequest(r).prompt}

\* the tasks that were given the response channel of r
WritersOf(r) ==
    {t \in DOMAIN stasks : stasks[t].response_channel = PendingRequest(r).response_channel}

\* two tasks of the same batch that are both in flight
ConcurrentSiblings(t, u) ==
    /\ t # u
    /\ stasks[t].ptask = stasks[u].ptask
    /\ stasks[t].pc = "streaming"
    /\ stasks[u].pc = "streaming"

\* C2 (isolation): every item in the sink of a request was put by the one
\* upstream-call task dispatched for that request: at most one task holds the
\* channel, it is the call for the request's own prompt, and every fragment
\* or error fragment in the sink comes from the call for that prompt, never
\* from the call of another request.
C2_Isolation ==
    \A r \in Requests :
        /\ Cardinality(WritersOf(r)) <= 1
        /\ WritersOf(r) \subseteq CallsFor(r)
        /\ written[r] # << >> => WritersOf(r) # {}
        /\ \A k \in DOMAIN written[r] :
              written[r][k] # EndOfStream =>
                  written[r][k].prompt = PendingRequest(r).prompt

\* two calls of one batch are in flight together and one has emitted a fragment
C2_Witness ==
    \E t, u \in DOMAIN stasks :
        /\ ConcurrentSiblings(t, u)
        /\ stasks[t].emitted > 0
        /\ written[stasks[t].response_channel] # << >>

\* C3: a sink holds at most one end-of-stream marker and the marker is the
\* last item ever put on it.
C3_MarkerLast ==
    \A r \in Requests :
        \A k \in DOMAIN written[r] :
            written[r][k] = EndOfStream => k = Len(written[r])

\* a sink that got a fragment, an error fragment and then the marker
C3_Witness ==
    \E r \in Requests :
        /\ Len(written[r]) = 3
        /\ written[r][2].kind = "error"
        /\ written[r][3] = EndOfStream

SinkOf(task, tail) == Emitted(task.prompt, task.emitted) \o tail

ErrorsIn(seq) == {k \in DOMAIN seq : seq[k].kind = "error"}

C6_CancelledGetsError ==
    \A t \in DOMAIN stasks :
        stasks[t].result = "cancelled" =>
            written[stasks[t].response_channel] =
                SinkOf(stasks[t], <<ErrorFragment(stasks[t].prompt), EndOfStream>>)

\* the fragments among the items of a sequence
FragmentsIn(seq) == SelectSeq(seq, LAMBDA x : x.kind = "fragment")

\* the number of fragments the upstream call for request r has emitted
EmittedFor(r) == IF CallsFor(r) = {} THEN 0 ELSE stasks[CHOOSE t \in CallsFor(r) : TRUE].emitted

\* the items the consumer of r has taken off the channel
Taken(r) == IF cpc[r] = "done" THEN yielded[r] \o <<EndOfStream>> ELSE yielded[r]

\* C7 (order within a stream): the fragments in a sink are exactly the
\* fragments the upstream call of the request has emitted, in emission order,
\* none reordered, duplicated or dropped; and what the consumer was yielded,
\* followed by what still waits in the channel, is exactly what was put on
\* the sink.
C7_OrderKept ==
    \A r \in Requests :
        /\ FragmentsIn(written[r]) = Emitted(PendingRequest(r).prompt, EmittedFor(r))
        /\ Taken(r) \o channel[r] = written[r]

\* a consumer that was yielded two fragments of its call, in emission order
C7_Witness ==
    \E r \in Requests :
        /\ Len(yielded[r]) >= 2
        /\ yielded[r][1] = Fragment(PendingRequest(r).prompt, 1)
        /\ yielded[r][2] = Fragment(PendingRequest(r).prompt, 2)

\* the queue of the model a worker serves
QueueOfWorker(i) == QueueOf(requests_queues, wtasks[i].model)

\* C8 (batch bound): every batch _collect_batch has returned and every batch
\* it is collecting holds at most max_batch_size requests, however many are
\* queued; every batch handed to _process_batch holds between 1 and
\* max_batch_size requests.
C8_BatchBound ==
    /\ \A p \in DOMAIN ptasks :
          /\ Len(ptasks[p].batch) >= 1
          /\ Len(ptasks[p].batch) <= max_batch_size
    /\ \A i \in DOMAIN wtasks : Len(wtasks[i].batch) <= max_batch_size

\* more than max_batch_size requests were queued: a full batch was cut and
\* requests are left in the queue
C8_Witness ==
    \E i \in DOMAIN wtasks, p \in DOMAIN ptasks :
        /\ Len(ptasks[p].batch) = max_batch_size
        /\ ptasks[p].rem = batch_timeout
        /\ Len(QueueOfWorker(i)) >= 2

\* the places that hold the pending request of r: positions in the request
\* queues, in the batches being collected and in the batches handed over
Holders(r) ==
    UNION {{<<"queue", m, k>> : k \in {j \in DOMAIN requests_queues[m] :
                                         requests_queues[m][j] = PendingRequest(r)}} :
             m \in DOMAIN requests_queues}
    \cup UNION {{<<"collecting", i, k>> : k \in {j \in DOMAIN wtasks[i].batch :
                                         wtasks[i].batch[j] = PendingRequest(r)}} :
             i \in DOMAIN wtasks}
    \cup UNION {{<<"batch", p, k>> : k \in {j \in DOMAIN ptasks[p].batch :
                                         ptasks[p].batch[j] = PendingRequest(r)}} :
             p \in DOMAIN ptasks}

\* the request is in the batch of a _process_batch task that has created its
\* upstream-call tasks
Dispatched(r) ==
    \E p \in DOMAIN ptasks :
        /\ ptasks[p].pc # "created"
        /\ \E k \in DOMAIN ptasks[p].batch : ptasks[p].batch[k] = PendingRequest(r)

SameCycle(i) ==
    /\ i \in DOMAIN wtasks'
    /\ wtasks[i].pc = "wait_for"
    /\ wtasks'[i].pc = "wait_for"
    /\ ptasks' = ptasks

\* worker i returns an empty batch over a step
ReturnsEmpty(i) ==
    /\ i \in DOMAIN wtasks'
    /\ wtasks[i].pc = "wait_for"
    /\ wtasks'[i].pc = "sleep"

\* C10 (cutoff policy): the deadline of a cycle is fixed once: within a cycle
\* the time left only runs down and taking an element does not change it.  A
\* batch that is not full is returned only when no time is left, an empty one
\* included; a cycle never waits once it holds max_batch_size requests.
C10_CutoffPolicy ==
    /\ [](\A p \in DOMAIN ptasks :
             Len(ptasks[p].batch) < max_batch_size => ptasks[p].rem = 0)
    /\ [](\A i \in DOMAIN wtasks :
             wtasks[i].pc = "wait_for" => Len(wtasks[i].batch) < max_batch_size)
    /\ [][\A i \in DOMAIN wtasks :
             /\ SameCycle(i) =>
                   /\ wtasks'[i].remaining <= wtasks[i].remaining
                   /\ wtasks'[i].batch # wtasks[i].batch =>
                         wtasks'[i].remaining = wtasks[i].remaining
             /\ ReturnsEmpty(i) => wtasks[i].remaining = 0]_vars

\* Scenario B then Scenario A: max_batch_size queued requests were returned at
\* once, with the whole timeout left, and a further request alone was returned
\* when no time was left
C10_Witness ==
    \E p, q \in DOMAIN ptasks :
        /\ Len(ptasks[p].batch) = max_batch_size
        /\ ptasks[p].rem = batch_timeout
        /\ Len(ptasks[q].batch) = 1
        /\ ptasks[q].rem = 0

\* the pending requests submitted for model m, in submission order
PendingOf(m) ==
    LET ids == SelectSeq([r \in Requests |-> r], LAMBDA r : reqModel[r] = m)
    IN  [k \in 1..Len(ids) |-> PendingRequest(ids[k])]

\* the _process_batch tasks created for model m, in creation order
BatchesOf(m) == SelectSeq(ptasks, LAMBDA t : t.model = m)

\* worker i has begun to collect and k requests were queued for its model
\* before, with max_batch_size < k <= 2 * max_batch_size
Burst(i) ==
    /\ wtasks[i].pc # "created"
    /\ Len(PendingOf(wtasks[i].model)) > max_batch_size
    /\ Len(PendingOf(wtasks[i].model)) <= 2 * max_batch_size

\* the part of Scenario C that holds for every k of the range: at most two
\* batches; the first holds the first max_batch_size requests and is cut with
\* the whole timeout left; the second holds the other requests; the worker
\* waits, never sleeps, until both are cut
BurstBatches(i) ==
    LET R == PendingOf(wtasks[i].model)
        B == BatchesOf(wtasks[i].model)
    IN  /\ Len(B) <= 2
        /\ Len(B) >= 1 =>
              /\ B[1].batch = SubSeq(R, 1, max_batch_size)
              /\ B[1].rem = batch_timeout
        /\ Len(B) = 2 => B[2].batch = SubSeq(R, max_batch_size + 1, Len(R))
        /\ Len(B) < 2 => wtasks[i].pc = "wait_for"

\* C11 as claimed (Scenario C generalised): of k requests queued before a
\* collect cycle starts, max_batch_size < k <= 2 * max_batch_size, with no
\* later arrival, the worker makes exactly two batches, the first of the first
\* max_batch_size requests cut on the size threshold, the second of the other
\* k - max_batch_size requests cut by the timeout of the next cycle, with no
\* idle sleep in between.
C11_SecondByTimeout ==
    \A i \in DOMAIN wtasks :
        Burst(i) =>
            /\ BurstBatches(i)
            /\ Len(BatchesOf(wtasks[i].model)) = 2 =>
                  BatchesOf(wtasks[i].model)[2].rem = 0

\* C11 as amended: as claimed, but the second batch is cut by the timeout of
\* its cycle only when k < 2 * max_batch_size; when k = 2 * max_batch_size it
\* is full and is cut on the size threshold too, with the whole timeout left.
C11_TwoBatches ==
    \A i \in DOMAIN wtasks :
        Burst(i) =>
            /\ BurstBatches(i)
            /\ Len(BatchesOf(wtasks[i].model)) = 2 =>
                  LET second == BatchesOf(wtasks[i].model)[2] IN
                  IF Len(second.batch) < max_batch_size
                    THEN second.rem = 0
                    ELSE second.rem = batch_timeout

\* Scenario C: a burst of fewer than 2 * max_batch_size requests was cut into a
\* full batch and a smaller one, and the worker idles after its third, empty
\* cycle
C11_Witness ==
    \E i \in DOMAIN wtasks :
        /\ Burst(i)
        /\ wtasks[i].pc = "sleep"
        /\ Len(BatchesOf(wtasks[i].model)) = 2
        /\ Len(BatchesOf(wtasks[i].model)[2].batch) < max_batch_size
        /\ BatchesOf(wtasks[i].model)[2].rem = 0

\* worker i hands over a batch in the step: a _process_batch task is added for
\* the model of the worker
HandsOver(i) ==
    /\ i \in DOMAIN wtasks
    /\ wtasks[i].pc = "wait_for"
    /\ Len(ptasks') = Len(ptasks) + 1
    /\ ptasks'[Len(ptasks')].model = wtasks[i].model

\* C12 (worker loop decoupling): in the step in which a worker hands over a
\* non-empty batch, the _process_batch task is only created, not run, and the
\* worker is already in the wait of its next collect cycle, with a new deadline.
\* When no upstream call ever finishes, every submitted request is still
\* collected and dispatched: the batches in flight hold back no later cycle.
C12_Decoupled ==
    /\ [][\A i \in DOMAIN wtasks :
             HandsOver(i) =>
                 /\ ptasks'[Len(ptasks')].pc = "created"
                 /\ wtasks'[i] = EnterCollect(wtasks[i])]_vars
    /\ \A r \in Requests : (cpc[r] = "waiting") ~> Dispatched(r)

\* two batches of one model are in flight together: the later one was
\* collected and dispatched while the call of the earlier one has not ended
C12_Witness ==
    \E p, q \in DOMAIN ptasks :
        /\ p < q
        /\ ptasks[p].model = ptasks[q].model
        /\ ptasks[p].pc = "gather"
        /\ ptasks[q].pc = "gather"
        /\ \A t \in TasksOf(p) \cup TasksOf(q) : stasks[t].pc = "streaming"
        /\ TasksOf(p) # {} /\ TasksOf(q) # {}

\* worker i sleeps and its sleep is not over
Sleeping(i) ==
    /\ i \in DOMAIN wtasks
    /\ wtasks[i].pc = "sleep"
    /\ wtasks[i].remaining > 0

\* C13 (idle backoff): no _process_batch task ever holds an empty batch.  A
\* cycle that returns an empty batch creates no task and puts the worker to
\* sleep for idle_sleep; a worker goes to sleep only with an empty batch; and
\* while its sleep is not over the worker stays asleep and takes nothing from
\* the queue of its model.
C13_IdleBackoff ==
    /\ [](\A p \in DOMAIN ptasks : ptasks[p].batch # << >>)
    /\ [][\A i \in DOMAIN wtasks :
             /\ ReturnsEmpty(i) =>
                   /\ wtasks[i].batch = << >>
                   /\ ptasks' = ptasks
                   /\ wtasks'[i].remaining = idle_sleep
             /\ Sleeping(i) =>
                   /\ wtasks'[i].pc = "sleep"
                   /\ wtasks'[i].remaining >= wtasks[i].remaining - 1
                   /\ Len(QueueOf(requests_queues', wtasks[i].model))
                         >= Len(QueueOfWorker(i))]_vars

\* a worker that never got a request is in the middle of its sleep while a
\* request waits in the queue of its model
C13_Witness ==
    \E i \in DOMAIN wtasks :
        /\ Sleeping(i)
        /\ wtasks[i].remaining < idle_sleep
        /\ BatchesOf(wtasks[i].model) = << >>
        /\ QueueOfWorker(i) # << >>

\* the end-of-stream marker is the last item put on the sink of request r
MarkerWritten(r) ==
    /\ written[r] # << >>
    /\ written[r][Len(written[r])] = EndOfStream

\* C14: a _process_batch task that has returned has one upstream-call task per
\* request of its batch, each of them done with its end-of-stream marker
\* written; a task that waits in gather never ends with an exception, and it
\* can return as soon as all its calls are done, whichever of them failed.
C14_ReturnsAfterAll ==
    /\ [](\A p \in DOMAIN ptasks :
             /\ ptasks[p].pc = "returned" =>
                   /\ Cardinality(TasksOf(p)) = Len(ptasks[p].batch)
                   /\ \A t \in TasksOf(p) :
                         /\ stasks[t].pc = "done"
                         /\ MarkerWritten(stasks[t].response_channel)
             /\ (ptasks[p].pc = "gather" /\ \A t \in TasksOf(p) : stasks[t].pc = "done")
                   => ENABLED ProcessBatchReturn(p))
    /\ [][\A p \in DOMAIN ptasks :
             ptasks[p].pc = "gather" => ptasks'[p].pc \in {"gather", "returned"}]_vars

\* a _process_batch task has returned after one of its two calls failed and
\* the other ended normally
C14_Witness ==
    \E p \in DOMAIN ptasks :
        /\ ptasks[p].pc = "returned"
        /\ \E t, u \in TasksOf(p) :
              /\ stasks[t].result = "error"
              /\ stasks[u].result = "ok"

\* C15: the sink of every request of a batch gets its end-of-stream marker
\* always: once the _process_batch task of the batch has ended, by returning
\* or by an exception of the endpoint or API-key lookup, the marker is on the
\* sink of every request of the batch.
C15_MarkerAlways ==
    \A p \in DOMAIN ptasks :
        ptasks[p].pc \in {"returned", "raised"} =>
            \A k \in DOMAIN ptasks[p].batch :
                MarkerWritten(ptasks[p].batch[k].response_channel)

\* the pending request of r was handed to a _process_batch task that has run
Handed(r) ==
    \E p \in DOMAIN ptasks :
        /\ ptasks[p].pc # "created"
        /\ \E k \in DOMAIN ptasks[p].batch : ptasks[p].batch[k] = PendingRequest(r)

\* _process_batch task p ends with an exception in the step
Fails(p) ==
    /\ ptasks[p].pc # "raised"
    /\ ptasks'[p].pc = "raised"

\* C16: the step in which a _process_batch task ends with an exception leaves
\* every worker task and every request queue as it was, and under fair
\* scheduling every submitted request is collected and handed to a
\* _process_batch task that runs, however many earlier tasks have failed.
C16_WorkerSurvives ==
    /\ [][\A p \in DOMAIN ptasks :
             Fails(p) => wtasks' = wtasks /\ requests_queues' = requests_queues]_vars
    /\ \A r \in Requests : (cpc[r] = "waiting") ~> Handed(r)

\* a batch of a model failed in its lookup and a later batch of the same
\* model was collected and dispatched
C16_Witness ==
    \E p, q \in DOMAIN ptasks :
        /\ p < q
        /\ ptasks[p].model = ptasks[q].model
        /\ ptasks[p].pc = "raised"
        /\ ptasks[q].pc = "gather"
        /\ TasksOf(q) # {}

\* C17: a request for a model that is not in the configured list has its queue
\* created on first reference, and under fair scheduling it is collected and
\* dispatched and its stream ends with the end-of-stream marker, like a request
\* for a configured model.
C17_UnknownModelServed ==
    /\ [](\A r \in Requests :
             cpc[r] # "new" => reqModel[r] \in DOMAIN requests_queues)
    /\ \A r \in Requests :
          (cpc[r] = "waiting" /\ reqModel[r] \notin Configured) ~>
              (Dispatched(r) /\ cpc[r] = "done" /\ MarkerWritten(r))

\* the requests of a sequence of batches, in order
RECURSIVE Flatten(_)
Flatten(batches) ==
    IF batches = << >> THEN << >> ELSE Head(batches).batch \o Flatten(Tail(batches))

\* the batch the worker of model m is collecting
CollectingOf(m) ==
    IF \E i \in DOMAIN wtasks : wtasks[i].model = m
      THEN wtasks[CHOOSE i \in DOMAIN wtasks : wtasks[i].model = m].batch
      ELSE << >>

\* model m was referenced: a request was submitted for it or its worker has
\* begun its first collect
Referenced(m) ==
    \/ \E r \in Requests : reqModel[r] = m
    \/ \E i \in DOMAIN wtasks : wtasks[i].model = m /\ wtasks[i].pc # "created"

\* the request a client would submit next
NextRequest(r) ==
    /\ cpc[r] = "new"
    /\ \A o \in Requests : o < r => cpc[o] # "new"

\* C18: queue creation is idempotent and submission never blocks.  The map has
\* an entry for every model that was referenced, by a submission or by the
\* worker's first collect, in whatever order; the one queue of a model holds
\* every request submitted for it that the worker has not taken, in submission
\* order: the requests handed over, then those being collected, then the queue
\* are all the requests of the model.  A next request can be submitted for any
\* model whatever the depth of its queue.
C18_OneQueue ==
    /\ \A m \in Configured :
          /\ Referenced(m) => m \in DOMAIN requests_queues
          /\ m \in DOMAIN requests_queues =>
                PendingOf(m) = Flatten(BatchesOf(m)) \o CollectingOf(m) \o requests_queues[m]
          /\ m \notin DOMAIN requests_queues => PendingOf(m) = << >>
    /\ \A r \in Requests, m \in Configured : NextRequest(r) => ENABLED Submit(r, m)

\* the first collect of a worker holds the first request of its model while
\* more than max_batch_size later submissions already wait in the queue
C18_Witness ==
    \E i \in DOMAIN wtasks :
        /\ wtasks[i].pc = "wait_for"
        /\ BatchesOf(wtasks[i].model) = << >>
        /\ wtasks[i].batch # << >>
        /\ wtasks[i].model \in DOMAIN requests_queues
        /\ Len(requests_queues[wtasks[i].model]) > max_batch_size

\* the items of a sink that precede its first end-of-stream marker
RECURSIVE BeforeMarker(_)
BeforeMarker(seq) ==
    IF seq = << >> \/ Head(seq) = EndOfStream
      THEN << >>
      ELSE <<Head(seq)>> \o BeforeMarker(Tail(seq))

\* s is an initial part of t
IsPrefix(s, t) == Len(s) <= Len(t) /\ s = SubSeq(t, 1, Len(s))

\* C19 (streaming facade): what stream_inference has yielded is always an
\* initial part of the items of its sink before the first end-of-stream marker,
\* and all of them once the generator has ended; the marker is never yielded;
\* a yielded error fragment is the last value yielded, with the marker as the
\* only item left to read or the generator ended.  An ended generator reads and
\* yields nothing more.
C19_Facade ==
    /\ [](\A r \in Requests :
             /\ IsPrefix(yielded[r], BeforeMarker(written[r]))
             /\ cpc[r] = "done" =>
                   /\ yielded[r] = BeforeMarker(written[r])
                   /\ Len(written[r]) > Len(yielded[r])
                   /\ written[r][Len(yielded[r]) + 1] = EndOfStream
             /\ \A k \in DOMAIN yielded[r] :
                   /\ yielded[r][k] # EndOfStream
                   /\ yielded[r][k].kind = "error" =>
                         /\ k = Len(yielded[r])
                         /\ cpc[r] = "done" \/ channel[r] = <<EndOfStream>>)
    /\ [][\A r \in Requests :
             cpc[r] = "done" =>
                 /\ cpc'[r] = "done"
                 /\ yielded'[r] = yielded[r]
                 /\ channel'[r] = channel[r]]_vars

\* a generator has ended after it yielded a fragment and then the error
\* fragment of its call
C19_Witness ==
    \E r \in Requests :
        /\ cpc[r] = "done"
        /\ Len(yielded[r]) = 2
        /\ yielded[r][1].kind = "fragment"
        /\ yielded[r][2].kind = "error"

\* what the sink of a call holds when the call runs undisturbed: its fragments,
\* then nothing yet, the marker, or the error fragment and the marker
UndisturbedSink(task) ==
    SinkOf(task, IF task.pc = "streaming" THEN << >>
                 ELSE IF task.result = "ok" THEN <<EndOfStream>>
                 ELSE <<ErrorFragment(task.prompt), EndOfStream>>)

\* the consumer of the sink of task t has stopped reading
AbandonedSink(t) == cpc[stasks[t].response_channel] = "abandoned"

\* C20 (abandoned stream): the call of a request whose consumer has stopped
\* reading is never cancelled; while it is in flight it can always go on (end,
\* fail, or put a further fragment: no put waits for the reader), and its sink
\* holds exactly what the call has put, the unread items still in the channel.
\* A _process_batch task whose calls are all done can return whether or not
\* their sinks are read.  The siblings of the call in its batch have exactly
\* their own output in their sinks, and a sibling's consumer that has ended was
\* yielded all of it.
C20_Abandoned ==
    \A t \in DOMAIN stasks :
        /\ AbandonedSink(t) =>
              LET c == stasks[t].response_channel IN
              /\ stasks[t].result # "cancelled"
              /\ stasks[t].pc = "streaming" =>
                    /\ ENABLED Exhaust(t)
                    /\ ENABLED Raise(t)
                    /\ TotalEmitted(stasks, Len(stasks)) < MaxFragments => ENABLED Emit(t)
              /\ written[c] = UndisturbedSink(stasks[t])
              /\ yielded[c] \o channel[c] = written[c]
              /\ (ptasks[stasks[t].ptask].pc = "gather"
                    /\ \A u \in TasksOf(stasks[t].ptask) : stasks[u].pc = "done")
                    => ENABLED ProcessBatchReturn(stasks[t].ptask)
        /\ \A u \in DOMAIN stasks :
              (AbandonedSink(u) /\ u # t /\ stasks[u].ptask = stasks[t].ptask
                  /\ ~AbandonedSink(t)) =>
                  LET c == stasks[t].response_channel IN
                  /\ written[c] = UndisturbedSink(stasks[t])
                  /\ cpc[c] = "done" => yielded[c] = BeforeMarker(written[c])

\* a consumer stopped reading before its call had put anything; the call went
\* on to put a fragment and the marker, which stay unread; its sibling was read
\* to the end and _process_batch has returned
C20_Witness ==
    \E t, u \in DOMAIN stasks :
        /\ t # u
        /\ stasks[t].ptask = stasks[u].ptask
        /\ AbandonedSink(t)
        /\ yielded[stasks[t].response_channel] = << >>
        /\ Len(channel[stasks[t].response_channel]) >= 2
        /\ stasks[t].result = "ok"
        /\ cpc[stasks[u].response_channel] = "done"
        /\ yielded[stasks[u].response_channel] # << >>
        /\ ptasks[stasks[t].ptask].pc = "returned"

\* the worker tasks of model m that have not ended
LiveWorkers(m) == {i \in DOMAIN wtasks : wtasks[i].model = m /\ wtasks[i].pc # "failed"}

\* worker i ends with an exception in this step
FailsNow(i) == wtasks[i].pc # "failed" /\ wtasks'[i].pc = "failed"

\* C21 (worker failure is permanent and local): a worker task that has ended
\* with an exception stays ended and no worker task is created in its place;
\* from then on the request queue of its model only grows and no batch of
\* that model is dispatched; the step in which it ends changes no other
\* worker, no queue and no batch.
C21_PermanentAndLocal ==
    [][/\ DOMAIN wtasks' = DOMAIN wtasks \/ wtasks = << >>
       /\ \A i \in DOMAIN wtasks :
             /\ wtasks[i].pc = "failed" => wtasks'[i] = wtasks[i]
             /\ FailsNow(i) =>
                   /\ \A j \in DOMAIN wtasks : j # i => wtasks'[j] = wtasks[j]
                   /\ UNCHANGED <<requests_queues, workers, ptasks, stasks>>
       /\ \A m \in Configured :
             (wtasks # << >> /\ LiveWorkers(m) = {}) =>
                 /\ IsPrefix(QueueOf(requests_queues, m), QueueOf(requests_queues', m))
                 /\ Len(BatchesOf(m)') = Len(BatchesOf(m))]_vars

\* the worker of one model has ended with no request in hand and a request waits
\* in its queue, while a batch of the other model was dispatched
C21_Witness ==
    \E i, j \in DOMAIN wtasks :
        /\ wtasks[i].pc = "failed"
        /\ wtasks[i].batch = << >>
        /\ QueueOf(requests_queues, wtasks[i].model) # << >>
        /\ wtasks[j].pc # "failed"
        /\ \E p \in DOMAIN ptasks :
              /\ ptasks[p].model = wtasks[j].model
              /\ ptasks[p].pc = "gather"

\* C22 (single consumer): in every reachable state every model has at most one
\* worker task that has not ended, whatever list list_models returns and however
\* often start_workers was called.
C22_OneWorkerPerModel ==
    \A m \in Configured : Cardinality(LiveWorkers(m)) <= 1

\* the requests of a batch were all submitted for model m
AllFor(batch, m) == \A k \in DOMAIN batch : reqModel[batch[k].prompt] = m

\* C23 (model partitioning): the batch a worker is collecting and every batch
\* handed to _process_batch hold only requests submitted for the model of that
\* worker or batch; every upstream call is issued for the model of its batch,
\* which is the model its prompt was submitted for; and a step that takes a
\* request from the queue of a model is a step of a worker of that model,
\* which puts the request that headed the queue in its own batch.
C23_Partition ==
    /\ [](/\ \A i \in DOMAIN wtasks : AllFor(wtasks[i].batch, wtasks[i].model)
          /\ \A p \in DOMAIN ptasks : AllFor(ptasks[p].batch, ptasks[p].model)
          /\ \A t \in DOMAIN stasks :
                /\ stasks[t].model = ptasks[stasks[t].ptask].model
                /\ stasks[t].model = reqModel[stasks[t].prompt]
                /\ stasks[t].url = get_url(reqModel[stasks[t].prompt]))
    /\ [][\A m \in DOMAIN requests_queues :
            Len(requests_queues'[m]) < Len(requests_queues[m]) =>
                /\ requests_queues'[m] = Tail(requests_queues[m])
                /\ \A o \in DOMAIN requests_queues :
                      o # m => requests_queues'[o] = requests_queues[o]
                /\ \E i \in DOMAIN wtasks :
                      /\ wtasks[i].model = m
                      /\ wtasks[i].pc = "wait_for"
                      /\ \A j \in DOMAIN wtasks : j # i => wtasks'[j] = wtasks[j]]_vars

\* both models have a dispatched batch with its upstream calls created, and a
\* worker is collecting a further request
C23_Witness ==
    /\ \E p, o \in DOMAIN ptasks :
          /\ ptasks[p].model # ptasks[o].model
          /\ ptasks[p].pc = "gather"
          /\ ptasks[o].pc = "gather"
    /\ \E i \in DOMAIN wtasks : wtasks[i].pc = "wait_for" /\ wtasks[i].batch # << >>

\* the requests of model m that have left its queue, in the order of the
\* batches they were placed in and of their places in the batch; the batch of
\* a collect cycle under way comes after every batch already cut
BatchOrder(m) == Flatten(BatchesOf(m)) \o CollectingOf(m)

\* request a was enqueued before request b: stream_inference numbers the
\* requests in the order of their put (line 83)
EnqueuedBefore(a, b) == a.prompt < b.prompt

\* the requests of s are in the order they were enqueued in
InEnqueueOrder(s) == \A j, k \in DOMAIN s : j < k => EnqueuedBefore(s[j], s[k])

\* C24 (FIFO batching): for every model, the requests inside each batch are in
\* the order they were enqueued in, a request of an earlier batch was enqueued
\* before every request of a later batch, and every request still queued was
\* enqueued after all the requests that were taken.
C24_Fifo ==
    \A m \in Configured :
        /\ InEnqueueOrder(BatchOrder(m) \o QueueOf(requests_queues, m))
        /\ \A p \in DOMAIN ptasks : InEnqueueOrder(ptasks[p].batch)

\* one model has a full batch of several requests, cut before a later batch
C24_Witness ==
    \E p, o \in DOMAIN ptasks :
        /\ p < o
        /\ ptasks[p].model = ptasks[o].model
        /\ Len(ptasks[p].batch) = max_batch_size
        /\ Len(ptasks[o].batch) >= 1

\* the upstream call t fails in this step, after it has emitted a fragment
FailsMidStream(t) ==
    /\ stasks[t].pc = "streaming"
    /\ stasks[t].emitted > 0
    /\ stasks'[t].result = "error"

\* the sink of r has its end-of-stream marker
Closed(r) == written[r] # << >> /\ written[r][Len(written[r])] = EndOfStream

\* C25 (mid-stream failure): the step in which an upstream call fails after n
\* fragments finds exactly those n fragments, in emission order, in the sink
\* of its request and adds one error fragment and the end-of-stream marker;
\* that content is final: a sink with its marker never changes again.  Nothing
\* is ever taken back: a sink only grows at its end, the unread part of a
\* channel only grows at its end or loses its first item to the reader, and
\* what the reader was yielded only grows.  No sink ever has two error
\* fragments.
C25_MidStreamFailure ==
    [][/\ \A t \in DOMAIN stasks :
             FailsMidStream(t) =>
                 LET c == stasks[t].response_channel IN
                 /\ written[c] = Emitted(stasks[t].prompt, stasks[t].emitted)
                 /\ written'[c] = written[c] \o <<ErrorFragment(stasks[t].prompt), EndOfStream>>
       /\ \A r \in Requests :
             /\ IsPrefix(written[r], written'[r])
             /\ IsPrefix(yielded[r], yielded'[r])
             /\ IsPrefix(channel[r], channel'[r]) \/ channel'[r] = Tail(channel[r])
             /\ Closed(r) => written'[r] = written[r]
             /\ Cardinality(ErrorsIn(written'[r])) <= 1]_vars

\* an upstream call has failed after MaxFragments fragments and the consumer of
\* its request has read them all, then the error fragment, and has ended
C25_Witness ==
    \E t \in DOMAIN stasks :
        /\ stasks[t].result = "error"
        /\ stasks[t].emitted = MaxFragments
        /\ cpc[stasks[t].response_channel] = "done"
        /\ yielded[stasks[t].response_channel] =
              Emitted(stasks[t].prompt, MaxFragments) \o <<ErrorFragment(stasks[t].prompt)>>

\* the number of deltas of a line that carry a non-empty string
RECURSIVE Texts(_)
Texts(choices) ==
    IF choices = << >> THEN 0
    ELSE (IF Head(choices) = TextDelta THEN 1 ELSE 0) + Texts(Tail(choices))

\* the number of non-empty strings in the deltas of a sequence of lines
RECURSIVE TextsIn(_)
TextsIn(lines) ==
    IF lines = << >> THEN 0
    ELSE (IF Head(lines).kind = "data" THEN Texts(Head(lines).choices) ELSE 0)
         + TextsIn(Tail(lines))

\* C26 (what is written): every item ever put on a sink is a fragment or an
\* error message, both non-empty text, or the end-of-stream value None; a sink
\* holds as many fragments as the lines read by the call carry non-empty
\* strings, so blank lines, the [DONE] line, lines without the data prefix and
\* deltas with empty, null or missing content write nothing; None is only ever
\* the last item of a sink and is there only when the upstream call has ended;
\* and a consumer has ended only when the call of its request has ended.
C26_OnlyTextOrNone ==
    \A r \in Requests :
        /\ \A k \in DOMAIN written[r] :
              /\ written[r][k].kind \in {"fragment", "error", "eos"}
              /\ written[r][k] = EndOfStream =>
                    /\ k = Len(written[r])
                    /\ \A t \in WritersOf(r) : stasks[t].pc = "done"
        /\ Len(FragmentsIn(written[r])) = TextsIn(received[r])
        /\ cpc[r] = "done" => \E t \in WritersOf(r) : stasks[t].pc = "done"

\* the call of a request has read a delta with null content and then a delta
\* with text, the stream has ended, and the consumer was yielded the one
\* fragment and has ended
C26_Witness ==
    \E r \in Requests :
        /\ received[r] = <<Line("data", <<NullDelta>>), Line("data", <<TextDelta>>)>>
        /\ cpc[r] = "done"
        /\ yielded[r] = Emitted(r, 1)

\* the messages the server has sent in answer to the k-th received message
AnswersTo(k) == SelectSeq(ws_out, LAMBDA x : x.msg = k)

\* the order of the messages of the server: the answers follow the order of the
\* received messages and are never interleaved; a message with a prompt is
\* answered by token messages and then at most one done message, which is the
\* last; a message without a prompt is answered by exactly one error message,
\* nothing is enqueued for it, and the handler goes on receiving
WsOrder ==
    /\ \A i, j \in DOMAIN ws_out : i < j => ws_out[i].msg <= ws_out[j].msg
    /\ \A k \in DOMAIN ws_in :
          LET a == AnswersTo(k) IN
          IF HasPrompt(ws_in[k])
            THEN /\ \A i \in DOMAIN a :
                       \/ a[i].type = "token"
                       \/ a[i].type = "done" /\ i = Len(a)
                 /\ reqModel[Streamed(ws_in, k)] = DataGet(ws_in[k].model, DefaultModel)
            ELSE a = <<ErrorMessage(k)>>
    /\ Cardinality({r \in Requests : cpc[r] # "new"}) = Streamed(ws_in, Len(ws_in))
    /\ (ws_in # << >> /\ ws_in[Len(ws_in)].kind = "json" /\ ~HasPrompt(ws_in[Len(ws_in)]))
          => ws_pc = "receive"

\* C27 (protocol of /ws/eval): the messages of the server are ordered as
\* WsOrder says, and every received message with a non-empty prompt is in the
\* end answered by its done message.
C27_Protocol ==
    /\ []WsOrder
    /\ \A k \in 1..MaxMessages :
          (k \in DOMAIN ws_in /\ HasPrompt(ws_in[k]))
              ~> (\E i \in DOMAIN ws_out : ws_out[i] = DoneMessage(k))

\* C28 (pod lifecycle): when the generator of chat_complete has finished, every
\* pod the provider created for it was deleted.
C28_PodDeleted ==
    (pi_entry = "chat_complete" /\ pi_pc = "finished") => created \subseteq deleted

\* the statuses that end the wait
Settled == {"RUNNING", "FAILED", "TERMINATED"}

\* C29 (bounded wait): wait_for_pod_ready never makes more than timeout // 10
\* polls; while it waits no poll has reported RUNNING, FAILED or TERMINATED and
\* either a poll is left or the timeout error is due; it has returned True only
\* with RUNNING as the status of its last poll, raised the failure only with
\* FAILED or TERMINATED as that status, and raised the timeout error only
\* after all timeout // 10 polls, none of which reported one of the three.
C29_BoundedWait ==
    /\ wait.polls <= wait.timeout \div PollInterval
    /\ pi_pc = "wait_for_pod_ready" =>
          /\ wait.result = "none"
          /\ wait.status \notin Settled
          /\ wait.polls < wait.timeout \div PollInterval \/ ENABLED WaitTimeout
    /\ wait.result = "True" => wait.status = "RUNNING"
    /\ wait.result = "failed" => wait.status \in {"FAILED", "TERMINATED"}
    /\ wait.result = "timeout" =>
          /\ wait.polls = wait.timeout \div PollInterval
          /\ wait.status \notin Settled
    /\ (pi_entry = "wait_for_pod_ready" /\ pi_pc = "finished") =>
          /\ wait.result # "none"
          /\ pi_out = <<wait.result>>

\* a call with a timeout of two polls has polled twice without RUNNING, FAILED
\* or TERMINATED and has raised the timeout error
C29_Witness ==
    /\ pi_entry = "wait_for_pod_ready"
    /\ pi_pc = "finished"
    /\ wait.result = "timeout"
    /\ wait.polls = 2

====
